---- MODULE Spec2Model ----
(***************************************************************************)
(* Voice-message generation pipeline of the tts-telegram-bot repository:   *)
(* value objects (TextMessage, TtsConfig, VoiceMessage), the three speech  *)
(* providers (Yandex, Sber, OSS), TextToSpeechService, AudioConverter,    *)
(* GenerateVoiceMessageUseCase and the bot's handle_text_message.          *)
(*                                                                         *)
(* Python values are modelled as follows.                                  *)
(*   str content   : [lead, body, trail] - the number of leading blanks,   *)
(*                   the length of the stripped content, the number of     *)
(*                   trailing blanks (an all-blank string has body = 0).   *)
(*   bytes         : a sequence over ByteAlphabet.                         *)
(*   exception     : [type, msg, cause]; msg is the sequence of fragments  *)
(*                   the f-string concatenates, cause the type of the      *)
(*                   exception given after "from".                         *)
(*   return/raise  : [kind, vm, exc] with kind "ok" or "raise".            *)
(*   number        : [type, nan, val] - the Python type, whether a float   *)
(*                   is NaN, and the value in hundredths (1.0 is 100).     *)
(***************************************************************************)
EXTENDS Integers, Sequences, FiniteSets, TLC

VARIABLES
    ucPc,            \* "call" before execute() runs, "done" after
    ucText,          \* execute(): the text argument
    ucConfig,        \* execute(): the config argument (NoConfig for None)
    ucStub,          \* what the injected provider does when called
    ucCalls,         \* the (text, config) calls the provider received
    ucServiceResult, \* what TextToSpeechService.synthesize gave the use case
    ucResult         \* what execute() returned or raised

VARIABLES
    voPc,            \* value-object construction: "idle", "call", "done"
    voClass,         \* the class constructed: "TextMessage", "VoiceMessage", "TtsConfig"
    voContent,       \* TextMessage(content=...): [isStr, s]
    voAudio,         \* VoiceMessage(audio_data=...): [isBytes, data]
    voFormat,        \* VoiceMessage(format=...)
    voSize,          \* VoiceMessage(size=...) (NoSize for None)
    voSpeed,         \* TtsConfig(speed=...)
    voResult,        \* the constructed object or the exception raised
    voLength         \* TextMessage.length of the constructed object (NoSize: none)

VARIABLES
    hPc,             \* handle_text_message: "idle", "start", "execute", "synth",
                     \* "generated", "converting", "done"
    hText,           \* update.message.text
    hGen,            \* what use_case.execute(text=text, user_id=user_id) returned or raised
    hReplies,        \* the reply_text / reply_voice calls made, in order
    hEscaped         \* whether an exception left handle_text_message

VARIABLES
    provider,        \* Config.TTS_PROVIDER: the provider create_tts_provider made
    yPc,             \* YandexTtsProvider.synthesize: "idle", "posting", "done"
    yResp,           \* the response requests.post returned (NoResponse: none)
    yResult,         \* what the last Yandex synthesize returned or raised
    accessToken,     \* SberTtsProvider._access_token
    issued,          \* token endpoint: the newest token it has returned
    expiredUpTo,     \* token endpoint: tokens 1..expiredUpTo are no longer valid
    sPc,             \* per caller: "idle", "posting", "exchanging", "storing", "done"
    sHdrToken,       \* per caller: the token put in the Authorization header
    sResp,           \* per caller: the response requests.post returned
    sErrorMsg,       \* per caller: error_msg built so far
    sNewToken,       \* per caller: what get_access_token() returned (0: nothing)
    sResult,         \* per caller: what the last synthesize returned or raised
    sRequests,       \* per caller: synthesis requests sent by the current call
    sExchanges,      \* per caller: token exchanges made by the current call
    sCallNo,         \* per caller: synthesize calls started
    sPrevToken       \* per caller: the token the previous call obtained (0: none)

VARIABLES
    GTTS_AVAILABLE,    \* oss_tts module: "from gtts import gTTS" succeeded
    PYTTSX3_AVAILABLE, \* oss_tts module: "import pyttsx3" succeeded
    ossPreferArg,      \* OssTtsProvider(prefer_gtts=...)
    ossState,          \* "new", "ready" (constructed) or "failed" (ImportError)
    ossPreferGtts,     \* OssTtsProvider._prefer_gtts
    ossEnv,            \* what the engines and the file system did in the last call
    ossResult,         \* what the last OSS synthesize returned or raised
    ossFiles,          \* transient files the last OSS synthesize left behind
    cvPc,              \* convert_to_ogg_opus: "idle", "call" (about to run), "done"
    cvInput,           \* convert_to_ogg_opus: the voice_message argument
    cvEnv,             \* what the transcoder and the file system do in the call
    cvResult,          \* what convert_to_ogg_opus returned or raised
    cvRuns,            \* how often the call ran the transcoder
    cvFiles,           \* transient files the call left behind
    cvAgain,           \* what convert_to_ogg_opus(<the first result>) returned or raised
    cvAgainRuns,       \* how often that second call ran the transcoder
    cvAgainFiles       \* transient files that second call left behind

ossVars == <<GTTS_AVAILABLE, PYTTSX3_AVAILABLE, ossPreferArg, ossState, ossPreferGtts,
             ossEnv, ossResult, ossFiles>>

cvVars == <<cvPc, cvInput, cvEnv, cvResult, cvRuns, cvFiles, cvAgain, cvAgainRuns,
            cvAgainFiles>>

yVars == <<yPc, yResp, yResult>>

sVars == <<accessToken, issued, expiredUpTo, sPc, sHdrToken, sResp, sErrorMsg, sNewToken,
           sResult, sRequests, sExchanges, sCallNo, sPrevToken>>

voVars == <<voPc, voClass, voContent, voAudio, voFormat, voSize, voSpeed, voResult,
            voLength>>

hVars == <<hPc, hText, hGen, hReplies, hEscaped>>

ucVars == <<ucPc, ucText, ucConfig, ucStub, ucCalls, ucServiceResult, ucResult>>

\* ------------------------------------------------------------------------
\* Bounds of the model
\* ------------------------------------------------------------------------
MaxBytes == 2
MaxPad == 1
MaxCalls == 2
NumCallers == 2

\* ------------------------------------------------------------------------
\* Exceptions
\* ------------------------------------------------------------------------
NoCause == "None"

Exc(t, m, c) == [type |-> t, msg |-> m, cause |-> c]

NoExc == Exc("None", <<>>, NoCause)

\* Python's class hierarchy, as far as the except clauses of the code see it.
IsInstance(t, cls) ==
    \/ t = cls
    \/ cls = "Exception" /\ t # "None"
    \/ cls = "ValueError" /\ t \in {"UnicodeDecodeError", "JSONDecodeError"}
    \/ cls = "OSError" /\ t \in {"FileNotFoundError", "PermissionError"}
    \/ cls = "RequestException" /\ t \in {"Timeout", "ConnectionError"}
    \/ cls = "SubprocessError" /\ t \in {"TimeoutExpired", "CalledProcessError"}

TtsProviderError(m, c) == Exc("TtsProviderError", m, c)

\* ------------------------------------------------------------------------
\* Byte strings
\* ------------------------------------------------------------------------
\* 65 is ASCII "A"; 255 is a byte that never occurs in UTF-8.
ByteAlphabet == {65, 255}

ByteSeqs == UNION {[1..n -> ByteAlphabet] : n \in 0..MaxBytes}

\* bytes.decode() succeeds iff the bytes are valid UTF-8.
Utf8Valid(b) == \A i \in 1..Len(b) : b[i] < 128

\* ------------------------------------------------------------------------
\* VoiceMessage
\* ------------------------------------------------------------------------
NoSize == -1

Formats == {"ogg", "opus", "mp3", "wav", "OGG", "Opus", "MP3", "flac"}

\* str.lower() on the format tags of the model.
Lower(f) ==
    CASE f = "OGG" -> "ogg"
      [] f = "Opus" -> "opus"
      [] f = "MP3" -> "mp3"
      [] OTHER -> f

NoVM == [audio_data |-> <<>>, format |-> "", size |-> NoSize]

Ok(v) == [kind |-> "ok", vm |-> v, exc |-> NoExc]

Raise(e) == [kind |-> "raise", vm |-> NoVM, exc |-> e]

NoResult == [kind |-> "none", vm |-> NoVM, exc |-> NoExc]

\* The format check without .lower(), and size left as given.
VoiceMessage_CaseSensitive(data, fmt, size) ==
    IF Len(data) = 0
    THEN Raise(Exc("ValueError", <<"Audio data cannot be empty">>, NoCause))
    ELSE IF fmt \notin {"ogg", "opus", "mp3", "wav"}
    THEN Raise(Exc("ValueError", <<"Unsupported audio format: ", fmt>>, NoCause))
    ELSE Ok([audio_data |-> data, format |-> fmt, size |-> size])

\* VoiceMessage(audio_data, format, size) with __post_init__ on a bytes
\* audio_data.
VoiceMessage(data, fmt, size) ==
    IF Len(data) = 0
    THEN Raise(Exc("ValueError", <<"Audio data cannot be empty">>, NoCause))
    ELSE IF Lower(fmt) \notin {"ogg", "opus", "mp3", "wav"}
    THEN Raise(Exc("ValueError", <<"Unsupported audio format: ", fmt>>, NoCause))
    ELSE Ok([audio_data |-> data,
             format |-> fmt,
             size |-> IF size = NoSize THEN Len(data) ELSE size])

\* The VoiceMessage objects that exist: the results of construction.
VoiceMessages ==
    {VoiceMessage(d, f, NoSize).vm :
        <<d, f>> \in {x \in ByteSeqs \X Formats : VoiceMessage(x[1], x[2], NoSize).kind = "ok"}}

\* ------------------------------------------------------------------------
\* TextMessage
\* ------------------------------------------------------------------------
MAX_LENGTH == 2000
MIN_LENGTH == 1

Str(l, b, t) == [lead |-> l, body |-> b, trail |-> t]

StrLen(s) == s.lead + s.body + s.trail

\* str.strip(): drops the leading and trailing blanks.
Strip(s) == Str(0, s.body, 0)

\* The str arguments of the model: blank strings, short strings and strings
\* around MAX_LENGTH, each with up to MaxPad blanks on either side.
Contents ==
    {Str(l, b, t) : l \in 0..MaxPad, t \in 0..MaxPad,
                    b \in {0, 1, 2} \cup ((MAX_LENGTH - 2 * MaxPad - 1)..(MAX_LENGTH + 1))}

MsgEmptyText == "Text cannot be empty"
MsgTooLong == "Text exceeds maximum length of 2000 characters. Current length: "

\* The length checks with the limit itself excluded.
TextMessageInit_LimitExcluded(content) ==
    IF StrLen(Strip(content)) < MIN_LENGTH
    THEN Raise(Exc("ValueError", <<MsgEmptyText>>, NoCause))
    ELSE IF StrLen(content) >= MAX_LENGTH
    THEN Raise(Exc("ValueError", <<MsgTooLong, "<len(content)>">>, NoCause))
    ELSE Ok(NoVM)

\* TextMessage.__post_init__ on a str: "ok" or the ValueError it raises.
TextMessageInit(content) ==
    IF StrLen(Strip(content)) < MIN_LENGTH
    THEN Raise(Exc("ValueError", <<MsgEmptyText>>, NoCause))
    ELSE IF StrLen(content) > MAX_LENGTH
    THEN Raise(Exc("ValueError", <<MsgTooLong, "<len(content)>">>, NoCause))
    ELSE Ok(NoVM)

\* The content argument of TextMessage(...): a str or an object of another type.
ContentArg(isStr, s) == [isStr |-> isStr, s |-> s]

\* TextMessage.__post_init__.
TextMessagePostInit(arg) ==
    IF ~arg.isStr
    THEN Raise(Exc("ValueError", <<"Content must be a string">>, NoCause))
    ELSE TextMessageInit(arg.s)

\* TextMessage.length
TextMessageLength(content) == StrLen(content)

\* ------------------------------------------------------------------------
\* VoiceMessage with an audio_data argument of any type
\* ------------------------------------------------------------------------
\* The audio_data argument: a bytes object or an object of another type.
AudioArg(isBytes, data) == [isBytes |-> isBytes, data |-> data]

\* VoiceMessage.__post_init__.
VoiceMessagePostInit(arg, fmt, size) ==
    IF ~arg.isBytes
    THEN Raise(Exc("ValueError", <<"Audio data must be bytes">>, NoCause))
    ELSE VoiceMessage(arg.data, fmt, size)

\* ------------------------------------------------------------------------
\* TtsConfig
\* ------------------------------------------------------------------------
\* Python numbers, in hundredths: float values, int values and float('nan').
PyFloat(v) == [type |-> "float", nan |-> FALSE, val |-> v]

PyInt(n) == [type |-> "int", nan |-> FALSE, val |-> 100 * n]

NaN == [type |-> "float", nan |-> TRUE, val |-> 0]

\* An object that is no number.
PyOther(t) == [type |-> t, nan |-> FALSE, val |-> 0]

\* isinstance(x, (int, float))
IsNumber(x) == x.type \in {"int", "float"}

\* x <= c, x > c and x < c for a numeric constant c: every comparison with NaN
\* is False.
NumLe(x, c) == ~x.nan /\ x.val <= c

NumGt(x, c) == ~x.nan /\ x.val > c

NumLt(x, c) == ~x.nan /\ x.val < c

TtsConfig(v, l, s, e) == [voice |-> v, language |-> l, speed |-> s, emotion |-> e]

\* TtsConfig(): the dataclass defaults.
DefaultTtsConfig == TtsConfig("alena", "ru-RU", PyFloat(100), "None")

\* TtsConfig.__post_init__: the limits are 0, 3.0 and 0.1.
TtsConfigInit(cfg) ==
    IF ~IsNumber(cfg.speed) \/ NumLe(cfg.speed, 0)
    THEN Raise(Exc("ValueError", <<"Speed must be a positive number">>, NoCause))
    ELSE IF NumGt(cfg.speed, 300)
    THEN Raise(Exc("ValueError", <<"Speed cannot exceed 3.0">>, NoCause))
    ELSE IF NumLt(cfg.speed, 10)
    THEN Raise(Exc("ValueError", <<"Speed cannot be less than 0.1">>, NoCause))
    ELSE Ok(NoVM)

\* The speed arguments of the model.
Speeds ==
    {PyFloat(v) : v \in {-100, -1, 0, 1, 5, 9, 10, 11, 100, 299, 300, 301, 1000}}
        \cup {PyInt(n) : n \in -1..4}
        \cup {NaN, PyOther("str"), PyOther("NoneType")}

NoConfig == TtsConfig("None", "None", PyOther("NoneType"), "None")

\* The TtsConfig objects a caller can hold (construction succeeded).
Configs ==
    {c \in {TtsConfig(v, l, s, e) : v \in {"alena"}, l \in {"ru-RU", "en-US"},
                                    s \in {PyFloat(10), PyFloat(100), PyInt(3)},
                                    e \in {"None", "good"}} :
        TtsConfigInit(c).kind = "ok"}

\* ------------------------------------------------------------------------
\* HTTP responses of the vendors
\* ------------------------------------------------------------------------
MsgExpired == "Token has expired"

\* Message texts a vendor may put in its error JSON ("" when the key is absent
\* or empty).
VendorTexts == {"", MsgExpired, "quota exceeded", "service unavailable"}

\* requests.Response: status_code, whether .json() parses to a dict, the
\* values of json["error"]["message"] and json["message"], .text and .content.
Response(st, ok, em, m, t, c) ==
    [status |-> st, jsonOk |-> ok, errorMessage |-> em, message |-> m,
     text |-> t, content |-> c]

NoResponse == Response("None", FALSE, "", "", "", <<>>)

SuccessResponses == {Response("200", FALSE, "", "", "<audio>", c) : c \in ByteSeqs}

ErrorResponses ==
    {Response(st, TRUE, em, m, "<json>", <<>>) :
        st \in {"401", "500"}, em \in VendorTexts, m \in VendorTexts}
    \cup {Response(st, FALSE, "", "", "<html>", <<>>) : st \in {"401", "500"}}

\* response.text[:200]; the texts of the model are shorter than 200 characters.
Truncate200(t) == t

\* x or y on two str values.
StrOr(x, y) == IF x # "" THEN x ELSE y

MsgUnavailable == "Servis vremenno nedostupen. Poprobuyte pozzhe."
MsgGenerationFailed == "Oshibka pri generatsii golosa: "
MsgNewToken == " - New access token received"

\* ------------------------------------------------------------------------
\* YandexTtsProvider
\* ------------------------------------------------------------------------
\* synthesize() with an extra "except ValueError: raise" clause.
YandexHandlers_PassValueError(r) ==
    IF r.kind = "ok" THEN r
    ELSE IF IsInstance(r.exc.type, "RequestException")
    THEN Raise(TtsProviderError(<<MsgUnavailable>>, r.exc.type))
    ELSE IF IsInstance(r.exc.type, "TtsProviderError") THEN r
    ELSE IF IsInstance(r.exc.type, "ValueError") THEN r
    ELSE IF IsInstance(r.exc.type, "Exception")
    THEN Raise(TtsProviderError(<<MsgGenerationFailed, "<e>">>, r.exc.type))
    ELSE r

\* The except clauses of YandexTtsProvider.synthesize, in the order of the code.
YandexHandlers(r) ==
    IF r.kind = "ok" THEN r
    ELSE IF IsInstance(r.exc.type, "RequestException")
    THEN Raise(TtsProviderError(<<MsgUnavailable>>, r.exc.type))
    ELSE IF IsInstance(r.exc.type, "TtsProviderError") THEN r
    ELSE IF IsInstance(r.exc.type, "Exception")
    THEN Raise(TtsProviderError(<<MsgGenerationFailed, "<e>">>, r.exc.type))
    ELSE r

\* error_msg of YandexTtsProvider.synthesize for a non-200 response.
YandexErrorMsg(resp) ==
    IF resp.jsonOk
    THEN IF resp.message # ""
         THEN <<"Yandex TTS API error: ", resp.status, " - ", resp.message>>
         ELSE <<"Yandex TTS API error: ", resp.status>>
    ELSE <<"Yandex TTS API error: ", resp.status, " - ", Truncate200(resp.text)>>

\* The try block of YandexTtsProvider.synthesize once requests.post returned.
YandexTry(resp) ==
    IF resp.status # "200"
    THEN Raise(TtsProviderError(YandexErrorMsg(resp), NoCause))
    ELSE VoiceMessage(resp.content, "ogg", Len(resp.content))

\* synthesize() up to requests.post(..., timeout=10): the request is in flight.
YandexBegin ==
    /\ provider = "YANDEX"
    /\ yPc \in {"idle", "done"}
    /\ yPc' = "posting"
    /\ yResp' = NoResponse
    /\ yResult' = NoResult
    /\ UNCHANGED <<provider, sVars, ossVars, cvVars, ucVars, voVars, hVars>>

\* requests.post returned resp; the rest of synthesize().
YandexPostReturns ==
    /\ provider = "YANDEX"
    /\ yPc = "posting"
    /\ \E resp \in SuccessResponses \cup ErrorResponses :
          /\ yResp' = resp
          /\ yResult' = YandexHandlers(YandexTry(resp))
    /\ yPc' = "done"
    /\ UNCHANGED <<provider, sVars, ossVars, cvVars, ucVars, voVars, hVars>>

\* requests.post raised: the 10 s timeout ran out, or the connection failed.
YandexPostFails ==
    /\ provider = "YANDEX"
    /\ yPc = "posting"
    /\ \E e \in {"Timeout", "ConnectionError"} :
          yResult' = YandexHandlers(Raise(Exc(e, <<"<requests>">>, NoCause)))
    /\ yPc' = "done"
    /\ UNCHANGED <<yResp, provider, sVars, ossVars, cvVars, ucVars, voVars, hVars>>

\* ------------------------------------------------------------------------
\* SberTtsProvider
\* ------------------------------------------------------------------------
AllCallers == 1..NumCallers

\* What the token endpoint and the synthesis endpoint accept.
TokenValid(t) == t > expiredUpTo

\* synthesize() with an extra "except ValueError: raise" clause.
SberHandlers_PassValueError(r) ==
    IF r.kind = "ok" THEN r
    ELSE IF IsInstance(r.exc.type, "RequestException")
    THEN Raise(TtsProviderError(<<MsgUnavailable>>, r.exc.type))
    ELSE IF IsInstance(r.exc.type, "TtsProviderError") THEN r
    ELSE IF IsInstance(r.exc.type, "ValueError") THEN r
    ELSE IF IsInstance(r.exc.type, "Exception")
    THEN Raise(TtsProviderError(<<MsgGenerationFailed, "<e>">>, r.exc.type))
    ELSE r

\* The except clauses of SberTtsProvider.synthesize, in the order of the code.
SberHandlers(r) ==
    IF r.kind = "ok" THEN r
    ELSE IF IsInstance(r.exc.type, "RequestException")
    THEN Raise(TtsProviderError(<<MsgUnavailable>>, r.exc.type))
    ELSE IF IsInstance(r.exc.type, "TtsProviderError") THEN r
    ELSE IF IsInstance(r.exc.type, "Exception")
    THEN Raise(TtsProviderError(<<MsgGenerationFailed, "<e>">>, r.exc.type))
    ELSE r

\* error_json.get("error", {}).get("message", "") or error_json.get("message", "")
SberErrorDetail(resp) == StrOr(resp.errorMessage, resp.message)

\* error_msg of SberTtsProvider.synthesize before any token exchange.
SberErrorMsg(resp) ==
    IF resp.jsonOk
    THEN IF SberErrorDetail(resp) # ""
         THEN <<"Sber TTS API error: ", resp.status, " - ", SberErrorDetail(resp)>>
         ELSE <<"Sber TTS API error: ", resp.status>>
    ELSE <<"Sber TTS API error: ", resp.status, " - ", Truncate200(resp.text)>>

\* if error_detail == "Token has expired"
SberMustRefresh(resp) ==
    resp.status # "200" /\ resp.jsonOk /\ SberErrorDetail(resp) = MsgExpired

\* The try block of synthesize() once requests.post returned a response that
\* does not ask for a token exchange.
SberTry(resp) ==
    IF resp.status # "200"
    THEN Raise(TtsProviderError(SberErrorMsg(resp), NoCause))
    ELSE VoiceMessage(resp.content, "ogg", Len(resp.content))

\* The responses the synthesis endpoint gives to a request bearing token t:
\* audio only for a valid token, the expiry error only for an expired one.
SberResponses(t) ==
    {r \in SuccessResponses \cup ErrorResponses :
        /\ r.status = "200" => TokenValid(t)
        /\ SberMustRefresh(r) => ~TokenValid(t)}

\* synthesize() up to requests.post(..., timeout=10): reads self._access_token
\* into the header and sends the synthesis request.
SberBegin(c) ==
    /\ provider = "SBER"
    /\ sPc[c] \in {"idle", "done"}
    /\ sCallNo[c] < MaxCalls
    /\ sCallNo' = [sCallNo EXCEPT ![c] = @ + 1]
    /\ sPc' = [sPc EXCEPT ![c] = "posting"]
    /\ sHdrToken' = [sHdrToken EXCEPT ![c] = accessToken]
    /\ sRequests' = [sRequests EXCEPT ![c] = 1]
    /\ sExchanges' = [sExchanges EXCEPT ![c] = 0]
    /\ sPrevToken' = [sPrevToken EXCEPT ![c] = sNewToken[c]]
    /\ sNewToken' = [sNewToken EXCEPT ![c] = 0]
    /\ sErrorMsg' = [sErrorMsg EXCEPT ![c] = <<>>]
    /\ sResult' = [sResult EXCEPT ![c] = NoResult]
    /\ sResp' = [sResp EXCEPT ![c] = NoResponse]
    /\ UNCHANGED <<accessToken, issued, expiredUpTo>>
    /\ UNCHANGED <<provider, yVars, ossVars, cvVars, ucVars, voVars, hVars>>

\* requests.post returned resp. On the expiry error the call goes on to
\* get_access_token(); otherwise synthesize() returns or raises.
SberPostReturns(c) ==
    /\ provider = "SBER"
    /\ sPc[c] = "posting"
    /\ \E resp \in SberResponses(sHdrToken[c]) :
          /\ sResp' = [sResp EXCEPT ![c] = resp]
          /\ IF SberMustRefresh(resp)
             THEN /\ sPc' = [sPc EXCEPT ![c] = "exchanging"]
                  /\ sExchanges' = [sExchanges EXCEPT ![c] = @ + 1]
                  /\ sErrorMsg' = [sErrorMsg EXCEPT ![c] = SberErrorMsg(resp)]
                  /\ UNCHANGED sResult
             ELSE /\ sPc' = [sPc EXCEPT ![c] = "done"]
                  /\ sErrorMsg' = [sErrorMsg EXCEPT ![c] =
                                      IF resp.status # "200" THEN SberErrorMsg(resp) ELSE <<>>]
                  /\ sResult' = [sResult EXCEPT ![c] = SberHandlers(SberTry(resp))]
                  /\ UNCHANGED sExchanges
    /\ UNCHANGED <<accessToken, issued, expiredUpTo, sHdrToken, sNewToken, sRequests,
                   sCallNo, sPrevToken>>
    /\ UNCHANGED <<provider, yVars, ossVars, cvVars, ucVars, voVars, hVars>>

\* requests.post raised: the 10 s timeout ran out, or the connection failed.
SberPostFails(c) ==
    /\ provider = "SBER"
    /\ sPc[c] = "posting"
    /\ \E e \in {"Timeout", "ConnectionError"} :
          sResult' = [sResult EXCEPT ![c] =
                         SberHandlers(Raise(Exc(e, <<"<requests>">>, NoCause)))]
    /\ sPc' = [sPc EXCEPT ![c] = "done"]
    /\ UNCHANGED <<accessToken, issued, expiredUpTo, sHdrToken, sResp, sErrorMsg, sNewToken,
                   sRequests, sExchanges, sCallNo, sPrevToken>>
    /\ UNCHANGED <<provider, yVars, ossVars, cvVars, ucVars, voVars, hVars>>

\* get_access_token() returned: the endpoint issued a new token.
SberExchangeReturns(c) ==
    /\ provider = "SBER"
    /\ sPc[c] = "exchanging"
    /\ issued' = issued + 1
    /\ sNewToken' = [sNewToken EXCEPT ![c] = issued + 1]
    /\ sPc' = [sPc EXCEPT ![c] = "storing"]
    /\ UNCHANGED <<accessToken, expiredUpTo, sHdrToken, sResp, sErrorMsg, sResult,
                   sRequests, sExchanges, sCallNo, sPrevToken>>
    /\ UNCHANGED <<provider, yVars, ossVars, cvVars, ucVars, voVars, hVars>>

\* A failed get_access_token() that leaves None in self._access_token.
SberExchangeFails_ClearsToken(c) ==
    /\ provider = "SBER"
    /\ sPc[c] = "exchanging"
    /\ accessToken' = 0
    /\ sErrorMsg' = [sErrorMsg EXCEPT ![c] = sErrorMsg[c] \o <<" - ", Truncate200(sResp[c].text)>>]
    /\ sResult' = [sResult EXCEPT ![c] =
                      SberHandlers(Raise(TtsProviderError(sErrorMsg'[c], NoCause)))]
    /\ sPc' = [sPc EXCEPT ![c] = "done"]
    /\ UNCHANGED <<issued, expiredUpTo, sHdrToken, sResp, sNewToken,
                   sRequests, sExchanges, sCallNo, sPrevToken>>
    /\ UNCHANGED <<provider, yVars, ossVars, cvVars, ucVars, voVars, hVars>>

\* get_access_token() raised (connection error, no JSON, no "access_token"
\* key): the bare except appends response.text[:200] and synthesize() raises.
SberExchangeFails(c) ==
    /\ provider = "SBER"
    /\ sPc[c] = "exchanging"
    /\ sErrorMsg' = [sErrorMsg EXCEPT ![c] = sErrorMsg[c] \o <<" - ", Truncate200(sResp[c].text)>>]
    /\ sResult' = [sResult EXCEPT ![c] =
                      SberHandlers(Raise(TtsProviderError(sErrorMsg'[c], NoCause)))]
    /\ sPc' = [sPc EXCEPT ![c] = "done"]
    /\ UNCHANGED <<accessToken, issued, expiredUpTo, sHdrToken, sResp, sNewToken,
                   sRequests, sExchanges, sCallNo, sPrevToken>>
    /\ UNCHANGED <<provider, yVars, ossVars, cvVars, ucVars, voVars, hVars>>

\* synthesize() that drops the token get_access_token() returned.
SberStore_NoReplace(c) ==
    /\ provider = "SBER"
    /\ sPc[c] = "storing"
    /\ sErrorMsg' = [sErrorMsg EXCEPT ![c] = sErrorMsg[c] \o <<MsgNewToken>>]
    /\ sResult' = [sResult EXCEPT ![c] =
                      Raise(TtsProviderError(sErrorMsg'[c], NoCause))]
    /\ sPc' = [sPc EXCEPT ![c] = "done"]
    /\ UNCHANGED <<accessToken, issued, expiredUpTo, sHdrToken, sResp, sNewToken, sRequests,
                   sExchanges, sCallNo, sPrevToken>>
    /\ UNCHANGED <<provider, yVars, ossVars, cvVars, ucVars, voVars, hVars>>

\* self._access_token = <the token returned>; the note is appended and
\* synthesize() raises.
SberStore(c) ==
    /\ provider = "SBER"
    /\ sPc[c] = "storing"
    /\ accessToken' = sNewToken[c]
    /\ sErrorMsg' = [sErrorMsg EXCEPT ![c] = sErrorMsg[c] \o <<MsgNewToken>>]
    /\ sResult' = [sResult EXCEPT ![c] =
                      SberHandlers(Raise(TtsProviderError(sErrorMsg'[c], NoCause)))]
    /\ sPc' = [sPc EXCEPT ![c] = "done"]
    /\ UNCHANGED <<issued, expiredUpTo, sHdrToken, sResp, sNewToken, sRequests,
                   sExchanges, sCallNo, sPrevToken>>
    /\ UNCHANGED <<provider, yVars, ossVars, cvVars, ucVars, voVars, hVars>>

\* The token endpoint retires tokens in the order it issued them.
TokensExpire ==
    /\ provider = "SBER"
    /\ \E t \in (expiredUpTo + 1)..issued : expiredUpTo' = t
    /\ UNCHANGED <<accessToken, issued, sPc, sHdrToken, sResp, sErrorMsg, sNewToken,
                   sResult, sRequests, sExchanges, sCallNo, sPrevToken>>
    /\ UNCHANGED <<provider, yVars, ossVars, cvVars, ucVars, voVars, hVars>>

\* After SberTtsProvider.__init__: the first token is cached and valid.
SberInit ==
    /\ accessToken = 1
    /\ issued = 1
    /\ expiredUpTo = 0
    /\ sPc = [c \in AllCallers |-> "idle"]
    /\ sHdrToken = [c \in AllCallers |-> 0]
    /\ sResp = [c \in AllCallers |-> NoResponse]
    /\ sErrorMsg = [c \in AllCallers |-> <<>>]
    /\ sNewToken = [c \in AllCallers |-> 0]
    /\ sResult = [c \in AllCallers |-> NoResult]
    /\ sRequests = [c \in AllCallers |-> 0]
    /\ sExchanges = [c \in AllCallers |-> 0]
    /\ sCallNo = [c \in AllCallers |-> 0]
    /\ sPrevToken = [c \in AllCallers |-> 0]

YandexInit == yPc = "idle" /\ yResp = NoResponse /\ yResult = NoResult

\* ------------------------------------------------------------------------
\* OssTtsProvider
\* ------------------------------------------------------------------------
MsgGtts == "Oshibka gTTS: "
MsgPyttsx3 == "Oshibka pyttsx3: "
MsgNoLibrary == "No TTS library available"

\* What the engines and the file system do during one OSS synthesize:
\*   gttsFails  gTTS(...) or write_to_fp raises
\*   initFails  pyttsx3.init() or setProperty raises
\*   tempFails  NamedTemporaryFile raises
\*   runFails   save_to_file / runAndWait raises
\*   noFile     the engine left no file at temp_path
\*   unlinkFails os.unlink raises
\*   data       the bytes the engine produced
OssEnvs ==
    [gttsFails : BOOLEAN, initFails : BOOLEAN, tempFails : BOOLEAN, runFails : BOOLEAN,
     noFile : BOOLEAN, unlinkFails : BOOLEAN, data : ByteSeqs]

NoOssEnv ==
    [gttsFails |-> FALSE, initFails |-> FALSE, tempFails |-> FALSE, runFails |-> FALSE,
     noFile |-> FALSE, unlinkFails |-> FALSE, data |-> <<>>]

\* A call's outcome together with the transient files it left behind.
Outcome(r, f) == [res |-> r, files |-> f]

\* OssTtsProvider._synthesize_gtts: every exception of the try block is
\* raised as TtsProviderError.
SynthesizeGtts(env) ==
    LET body == IF env.gttsFails
                THEN Raise(Exc("gTTSError", <<"<gtts>">>, NoCause))
                ELSE VoiceMessage(env.data, "mp3", Len(env.data))
    IN  IF body.kind = "ok" THEN body
        ELSE Raise(TtsProviderError(<<MsgGtts, "<e>">>, body.exc.type))

\* The try block of OssTtsProvider._synthesize_pyttsx3.
Pyttsx3Try(env) ==
    IF env.initFails THEN Raise(Exc("RuntimeError", <<"<pyttsx3>">>, NoCause))
    ELSE IF env.tempFails THEN Raise(Exc("OSError", <<"<tempfile>">>, NoCause))
    ELSE IF env.runFails THEN Raise(Exc("RuntimeError", <<"<pyttsx3>">>, NoCause))
    ELSE IF env.noFile
    THEN Raise(TtsProviderError(<<"Failed to generate audio file">>, NoCause))
    ELSE VoiceMessage(env.data, "wav", Len(env.data))

\* The finally block: temp_path is set once NamedTemporaryFile returned, and
\* the file is unlinked if it exists, ignoring a failure of os.unlink.
Pyttsx3Leftover(env) ==
    IF env.initFails \/ env.tempFails THEN {}
    ELSE IF ~env.runFails /\ env.noFile THEN {}
    ELSE IF env.unlinkFails THEN {"temp.wav"}
    ELSE {}

\* OssTtsProvider._synthesize_pyttsx3.
SynthesizePyttsx3(env) ==
    Outcome(IF Pyttsx3Try(env).kind = "ok" THEN Pyttsx3Try(env)
            ELSE Raise(TtsProviderError(<<MsgPyttsx3, "<e>">>, Pyttsx3Try(env).exc.type)),
            Pyttsx3Leftover(env))

\* The except clauses of OssTtsProvider.synthesize, in the order of the code.
OssHandlers(r) ==
    IF r.kind = "ok" THEN r
    ELSE IF IsInstance(r.exc.type, "TtsProviderError") THEN r
    ELSE IF IsInstance(r.exc.type, "Exception")
    THEN Raise(TtsProviderError(<<MsgGenerationFailed, "<e>">>, r.exc.type))
    ELSE r

\* The try block of OssTtsProvider.synthesize.
OssTry(preferGtts, pyttsx3, env) ==
    IF preferGtts THEN Outcome(SynthesizeGtts(env), {})
    ELSE IF pyttsx3 THEN SynthesizePyttsx3(env)
    ELSE Outcome(Raise(TtsProviderError(<<MsgNoLibrary>>, NoCause)), {})

\* OssTtsProvider.__init__(prefer_gtts=ossPreferArg).
OssConstruct ==
    /\ provider = "OSS"
    /\ ossState = "new"
    /\ IF ossPreferArg /\ ~GTTS_AVAILABLE /\ ~PYTTSX3_AVAILABLE
       THEN /\ ossState' = "failed"
            /\ ossResult' = Raise(Exc("ImportError", <<"Neither gTTS nor pyttsx3 is available">>,
                                      NoCause))
            /\ UNCHANGED ossPreferGtts
       ELSE /\ ossState' = "ready"
            /\ ossResult' = NoResult
            /\ ossPreferGtts' =
                 ((IF ossPreferArg /\ ~GTTS_AVAILABLE THEN FALSE ELSE ossPreferArg)
                  /\ GTTS_AVAILABLE)
    /\ UNCHANGED <<GTTS_AVAILABLE, PYTTSX3_AVAILABLE, ossPreferArg, ossEnv, ossFiles>>
    /\ UNCHANGED <<provider, yVars, sVars, cvVars, ucVars, voVars, hVars>>

\* OssTtsProvider.synthesize on a constructed provider.
OssSynthesize ==
    /\ provider = "OSS"
    /\ ossState = "ready"
    /\ \E env \in OssEnvs :
          /\ ossEnv' = env
          /\ ossResult' = OssHandlers(OssTry(ossPreferGtts, PYTTSX3_AVAILABLE, env).res)
          /\ ossFiles' = OssTry(ossPreferGtts, PYTTSX3_AVAILABLE, env).files
    /\ UNCHANGED <<GTTS_AVAILABLE, PYTTSX3_AVAILABLE, ossPreferArg, ossState, ossPreferGtts>>
    /\ UNCHANGED <<provider, yVars, sVars, cvVars, ucVars, voVars, hVars>>

\* Any outcome of the two imports and any prefer_gtts argument; not yet
\* constructed.
OssInit ==
    /\ GTTS_AVAILABLE \in BOOLEAN
    /\ PYTTSX3_AVAILABLE \in BOOLEAN
    /\ ossPreferArg \in BOOLEAN
    /\ ossState = "new"
    /\ ossPreferGtts = FALSE
    /\ ossEnv = NoOssEnv
    /\ ossResult = NoResult
    /\ ossFiles = {}

\* The OSS provider is not the configured one.
OssIdle ==
    /\ GTTS_AVAILABLE = FALSE
    /\ PYTTSX3_AVAILABLE = FALSE
    /\ ossPreferArg = TRUE
    /\ ossState = "new"
    /\ ossPreferGtts = FALSE
    /\ ossEnv = NoOssEnv
    /\ ossResult = NoResult
    /\ ossFiles = {}

\* ------------------------------------------------------------------------
\* AudioConverter.convert_to_ogg_opus
\* ------------------------------------------------------------------------
MsgConvTimeout == "Prevysheno vremya ozhidaniya konvertatsii audio"
MsgConvFailed == "Oshibka konvertatsii audio"
MsgConvFailedWith == "Oshibka konvertatsii audio: "

\* What the file system and the transcoder do during one call:
\*   ioFailAt   where an OSError is raised: "create_input", "write_input",
\*              "create_output" (the two NamedTemporaryFile blocks),
\*              "read_output" (open/read of the output), or "none"
\*   ffmpeg     subprocess.run: "missing" (FileNotFoundError), "timeout"
\*              (TimeoutExpired after 30 s), "nonzero" (CalledProcessError),
\*              "ok" (exit status 0)
\*   stderr     the bytes the transcoder wrote to stderr
\*   output     the bytes of the output file after exit status 0
\*   unlinkFails os.unlink raises
ConvEnvs ==
    [ioFailAt : {"none", "create_input", "write_input", "create_output", "read_output"},
     ffmpeg : {"missing", "timeout", "nonzero", "ok"},
     stderr : {<<>>, <<65>>, <<255>>},
     output : ByteSeqs,
     unlinkFails : BOOLEAN]

NoConvEnv ==
    [ioFailAt |-> "none", ffmpeg |-> "ok", stderr |-> <<>>, output |-> <<>>,
     unlinkFails |-> FALSE]

\* The check without .lower(): if voice_message.format in ['ogg', 'opus']
AlreadyOgg_CaseSensitive(vm) == vm.format \in {"ogg", "opus"}

\* if voice_message.format.lower() in ['ogg', 'opus']
AlreadyOgg(vm) == Lower(vm.format) \in {"ogg", "opus"}

\* The inner try block returning the result tagged with the codec name and
\* with a size of 0.
ConvertRun_WrongTag(env) ==
    IF env.ffmpeg = "missing" THEN Raise(Exc("FileNotFoundError", <<"<ffmpeg>">>, NoCause))
    ELSE IF env.ffmpeg = "timeout" THEN Raise(Exc("TimeoutExpired", <<"<ffmpeg>">>, NoCause))
    ELSE IF env.ffmpeg = "nonzero" THEN Raise(Exc("CalledProcessError", <<"<ffmpeg>">>, NoCause))
    ELSE IF env.ioFailAt = "read_output" THEN Raise(Exc("OSError", <<"<open>">>, NoCause))
    ELSE VoiceMessage(env.output, "opus", 0)

\* The inner try block: subprocess.run(cmd, timeout=30, check=True), reading
\* the output file, and constructing the VoiceMessage.
ConvertRun(env) ==
    IF env.ffmpeg = "missing" THEN Raise(Exc("FileNotFoundError", <<"<ffmpeg>">>, NoCause))
    ELSE IF env.ffmpeg = "timeout" THEN Raise(Exc("TimeoutExpired", <<"<ffmpeg>">>, NoCause))
    ELSE IF env.ffmpeg = "nonzero" THEN Raise(Exc("CalledProcessError", <<"<ffmpeg>">>, NoCause))
    ELSE IF env.ioFailAt = "read_output" THEN Raise(Exc("OSError", <<"<open>">>, NoCause))
    ELSE VoiceMessage(env.output, "ogg", Len(env.output))

\* The transient files that exist when the outer try block is left: the two
\* NamedTemporaryFile(delete=False) blocks come before the inner try, whose
\* finally unlinks input_path and output_path, ignoring failures of os.unlink.
ConvertLeftover(env) ==
    IF env.ioFailAt = "create_input" THEN {}
    ELSE IF env.ioFailAt \in {"write_input", "create_output"} THEN {"input"}
    ELSE IF env.unlinkFails THEN {"input", "output"}
    ELSE {}

\* The outer try block of convert_to_ogg_opus.
ConvertTry(env) ==
    IF env.ioFailAt \in {"create_input", "write_input", "create_output"}
    THEN Raise(Exc("OSError", <<"<tempfile>">>, NoCause))
    ELSE ConvertRun(env)

\* convert_to_ogg_opus without its "except subprocess.TimeoutExpired" clause.
ConvertHandlers_NoTimeoutClause(r, env) ==
    IF r.kind = "ok" THEN r
    ELSE IF IsInstance(r.exc.type, "CalledProcessError")
    THEN IF env.stderr # <<>> /\ ~Utf8Valid(env.stderr)
         THEN Raise(Exc("UnicodeDecodeError", <<"<decode>">>, NoCause))
         ELSE Raise(TtsProviderError(<<MsgConvFailed>>, NoCause))
    ELSE IF IsInstance(r.exc.type, "Exception")
    THEN Raise(TtsProviderError(<<MsgConvFailedWith, "<e>">>, r.exc.type))
    ELSE r

\* The except clauses of convert_to_ogg_opus, in the order of the code. The
\* CalledProcessError clause first logs e.stderr.decode() if e.stderr is not
\* empty; a UnicodeDecodeError raised there leaves the function.
ConvertHandlers(r, env) ==
    IF r.kind = "ok" THEN r
    ELSE IF IsInstance(r.exc.type, "TimeoutExpired")
    THEN Raise(TtsProviderError(<<MsgConvTimeout>>, NoCause))
    ELSE IF IsInstance(r.exc.type, "CalledProcessError")
    THEN IF env.stderr # <<>> /\ ~Utf8Valid(env.stderr)
         THEN Raise(Exc("UnicodeDecodeError", <<"<decode>">>, NoCause))
         ELSE Raise(TtsProviderError(<<MsgConvFailed>>, NoCause))
    ELSE IF IsInstance(r.exc.type, "Exception")
    THEN Raise(TtsProviderError(<<MsgConvFailedWith, "<e>">>, r.exc.type))
    ELSE r

\* How often the call runs the transcoder.
ConvertRuns(vm, env) ==
    IF AlreadyOgg(vm) \/ env.ioFailAt \in {"create_input", "write_input", "create_output"}
    THEN 0
    ELSE 1

\* AudioConverter.convert_to_ogg_opus(cvInput) in the environment cvEnv.
ConvertToOggOpus ==
    /\ cvPc = "call"
    /\ cvPc' = "done"
    /\ cvResult' = IF AlreadyOgg(cvInput) THEN Ok(cvInput)
                   ELSE ConvertHandlers(ConvertTry(cvEnv), cvEnv)
    /\ cvFiles' = IF AlreadyOgg(cvInput) THEN {} ELSE ConvertLeftover(cvEnv)
    /\ cvRuns' = ConvertRuns(cvInput, cvEnv)
    /\ UNCHANGED <<cvInput, cvEnv, cvAgain, cvAgainRuns, cvAgainFiles>>
    /\ UNCHANGED <<provider, yVars, sVars, ossVars, ucVars, voVars, hVars>>

\* The environments of a second call that differ from cvEnv in where the file
\* system fails, in how the transcoder ends and in whether os.unlink fails.
AgainEnvs == {e \in ConvEnvs : e.output = cvEnv.output /\ e.stderr = cvEnv.stderr}

\* convert_to_ogg_opus applied to the VoiceMessage the first call returned.
ConvertAgain ==
    /\ cvPc = "done"
    /\ cvResult.kind = "ok"
    /\ cvPc' = "again"
    /\ \E env \in AgainEnvs :
          /\ cvAgain' = IF AlreadyOgg(cvResult.vm) THEN Ok(cvResult.vm)
                        ELSE ConvertHandlers(ConvertTry(env), env)
          /\ cvAgainFiles' = IF AlreadyOgg(cvResult.vm) THEN {} ELSE ConvertLeftover(env)
          /\ cvAgainRuns' = ConvertRuns(cvResult.vm, env)
    /\ UNCHANGED <<cvInput, cvEnv, cvResult, cvRuns, cvFiles>>
    /\ UNCHANGED <<provider, yVars, sVars, ossVars, ucVars, voVars, hVars>>

\* Any VoiceMessage and any behaviour of the transcoder and the file system.
ConvInit ==
    /\ cvPc = "call"
    /\ cvInput \in VoiceMessages
    /\ cvEnv \in ConvEnvs
    /\ cvResult = NoResult
    /\ cvRuns = 0
    /\ cvFiles = {}
    /\ cvAgain = NoResult
    /\ cvAgainRuns = 0
    /\ cvAgainFiles = {}

\* The converter is not exercised.
ConvIdle ==
    /\ cvPc = "idle"
    /\ cvInput = NoVM
    /\ cvEnv = NoConvEnv
    /\ cvResult = NoResult
    /\ cvRuns = 0
    /\ cvFiles = {}
    /\ cvAgain = NoResult
    /\ cvAgainRuns = 0
    /\ cvAgainFiles = {}

\* ------------------------------------------------------------------------
\* TextToSpeechService and GenerateVoiceMessageUseCase
\* ------------------------------------------------------------------------
\* What an injected provider may do on synthesize: return a VoiceMessage or
\* raise any exception.
StubBehaviours ==
    {Ok(v) : v \in VoiceMessages}
    \cup {Raise(Exc(t, <<"stub">>, NoCause)) :
            t \in {"ValueError", "UnicodeDecodeError", "TtsProviderError",
                   "RuntimeError", "KeyError", "Timeout"}}

\* TextToSpeechService.synthesize: returns self._provider.synthesize(...).
TextToSpeechService_synthesize(providerResult) == providerResult

\* execute() without its last except clause: unexpected failures escape.
ExecuteHandlers_NoWrap(r) == r

\* The except clauses of execute(), in the order of the code.
ExecuteHandlers(r) ==
    IF r.kind = "ok" THEN r
    ELSE IF IsInstance(r.exc.type, "ValueError") THEN r
    ELSE IF IsInstance(r.exc.type, "TtsProviderError") THEN r
    ELSE IF IsInstance(r.exc.type, "Exception")
    THEN Raise(TtsProviderError(<<"Failed to generate voice message: ", "<e>">>, r.exc.type))
    ELSE r

\* config or TtsConfig()
ConfigOrDefault(config) == IF config = NoConfig THEN DefaultTtsConfig ELSE config

\* execute() calling the provider before validating, and once more on failure.
ExecuteCalls_Retry(text, config) ==
    <<[text |-> text, config |-> ConfigOrDefault(config)],
      [text |-> text, config |-> ConfigOrDefault(config)]>>

\* The calls execute() makes on the provider (through the service).
ExecuteCalls(text, config) ==
    IF TextMessageInit(text).kind = "raise" THEN <<>>
    ELSE <<[text |-> text, config |-> ConfigOrDefault(config)]>>

\* The body of the try block of execute(): what it returns or raises.
ExecuteTry(text, config, providerResult) ==
    IF TextMessageInit(text).kind = "raise" THEN TextMessageInit(text)
    ELSE TextToSpeechService_synthesize(providerResult)

\* GenerateVoiceMessageUseCase.execute(ucText, config=ucConfig) with a provider
\* that behaves as ucStub.
UseCaseExecute ==
    /\ ucPc = "call"
    /\ ucPc' = "done"
    /\ ucCalls' = ExecuteCalls(ucText, ucConfig)
    /\ ucServiceResult' = IF ExecuteCalls(ucText, ucConfig) = <<>> THEN NoResult
                          ELSE TextToSpeechService_synthesize(ucStub)
    /\ ucResult' = ExecuteHandlers(ExecuteTry(ucText, ucConfig, ucStub))
    /\ UNCHANGED <<ucText, ucConfig, ucStub>>
    /\ UNCHANGED <<provider, yVars, sVars, ossVars, cvVars, voVars, hVars>>

\* Any text, any config (or none) and any provider behaviour; no call made yet.
UcInit ==
    /\ ucPc = "call"
    /\ ucText \in Contents
    /\ ucConfig \in Configs \cup {NoConfig}
    /\ ucStub \in StubBehaviours
    /\ ucCalls = <<>>
    /\ ucServiceResult = NoResult
    /\ ucResult = NoResult

\* The use case is not exercised.
UcIdle ==
    /\ ucPc = "idle"
    /\ ucText = Str(0, 0, 0)
    /\ ucConfig = NoConfig
    /\ ucStub = NoResult
    /\ ucCalls = <<>>
    /\ ucServiceResult = NoResult
    /\ ucResult = NoResult

\* ------------------------------------------------------------------------
\* Construction of the value objects
\* ------------------------------------------------------------------------
\* TextMessage(content=voContent)
ConstructTextMessage ==
    /\ voPc = "call"
    /\ voClass = "TextMessage"
    /\ voPc' = "done"
    /\ voResult' = TextMessagePostInit(voContent)
    /\ voLength' = IF TextMessagePostInit(voContent).kind = "ok"
                   THEN TextMessageLength(voContent.s) ELSE NoSize
    /\ UNCHANGED <<voClass, voContent, voAudio, voFormat, voSize, voSpeed>>
    /\ UNCHANGED <<provider, yVars, sVars, ossVars, cvVars, ucVars, hVars>>

\* VoiceMessage(audio_data=voAudio, format=voFormat, size=voSize)
ConstructVoiceMessage ==
    /\ voPc = "call"
    /\ voClass = "VoiceMessage"
    /\ voPc' = "done"
    /\ voResult' = VoiceMessagePostInit(voAudio, voFormat, voSize)
    /\ UNCHANGED <<voClass, voContent, voAudio, voFormat, voSize, voSpeed, voLength>>
    /\ UNCHANGED <<provider, yVars, sVars, ossVars, cvVars, ucVars, hVars>>

\* TtsConfig(speed=voSpeed)
ConstructTtsConfig ==
    /\ voPc = "call"
    /\ voClass = "TtsConfig"
    /\ voPc' = "done"
    /\ voResult' = TtsConfigInit(TtsConfig("alena", "ru-RU", voSpeed, "None"))
    /\ UNCHANGED <<voClass, voContent, voAudio, voFormat, voSize, voSpeed, voLength>>
    /\ UNCHANGED <<provider, yVars, sVars, ossVars, cvVars, ucVars, hVars>>

\* No value object is being constructed on its own.
VoIdle ==
    /\ voPc = "idle"
    /\ voClass = "None"
    /\ voContent = ContentArg(TRUE, Str(0, 0, 0))
    /\ voAudio = AudioArg(TRUE, <<>>)
    /\ voFormat = "ogg"
    /\ voSize = NoSize
    /\ voSpeed = PyFloat(100)
    /\ voResult = NoResult
    /\ voLength = NoSize

\* The arguments of the three constructors.
ContentArgs == {ContentArg(TRUE, c) : c \in Contents} \cup {ContentArg(FALSE, Str(0, 0, 0))}

AudioArgs == {AudioArg(TRUE, d) : d \in ByteSeqs} \cup {AudioArg(FALSE, <<>>)}

SizeArgs == {NoSize, 0, MaxBytes + 1}

\* One constructor about to be called with any arguments.
VoInit ==
    /\ voPc = "call"
    /\ voClass \in {"TextMessage", "VoiceMessage", "TtsConfig"}
    /\ voContent \in IF voClass = "TextMessage" THEN ContentArgs
                     ELSE {ContentArg(TRUE, Str(0, 0, 0))}
    /\ voAudio \in IF voClass = "VoiceMessage" THEN AudioArgs ELSE {AudioArg(TRUE, <<>>)}
    /\ voFormat \in IF voClass = "VoiceMessage" THEN Formats ELSE {"ogg"}
    /\ voSize \in IF voClass = "VoiceMessage" THEN SizeArgs ELSE {NoSize}
    /\ voSpeed \in IF voClass = "TtsConfig" THEN Speeds ELSE {PyFloat(100)}
    /\ voResult = NoResult
    /\ voLength = NoSize

\* ------------------------------------------------------------------------
\* handle_text_message (bot.py)
\* ------------------------------------------------------------------------
MsgSendText == "Pozhaluysta, otpravte tekstovoe soobshchenie."
MsgReplyTooLong == "Tekst slishkom dlinnyy. Maksimalnaya dlina: 2000 simvolov."
MsgReplyEmpty == "Tekst ne mozhet byt pustym."
MsgReplyValidation == "Oshibka validatsii: "
MsgReplyUnexpected == "Proizoshla nepredvidennaya oshibka. Poprobuyte pozzhe."

\* reply_voice(voice=vm.audio_data, filename="voice.ogg") and reply_text(text).
VoiceReply(vm) == [kind |-> "voice", text |-> <<>>, vm |-> vm]

TextReply(t) == [kind |-> "text", text |-> t, vm |-> NoVM]

\* The message fragments of the model whose text contains the given words:
\* "exceeds maximum length", "cannot be empty", and (in lower case)
\* "nedostupen" or "unavailable".
SaysTooLong == {MsgTooLong}

SaysEmpty == {MsgEmptyText, "Audio data cannot be empty"}

SaysUnavailable == {MsgUnavailable, "service unavailable"}

\* needle in str(e), for a message made of fragments
Mentions(msg, fragments) == \E i \in DOMAIN msg : msg[i] \in fragments

\* The except clauses of handle_text_message without the last one.
HandlerReplies_NoCatchAll(r) ==
    IF r.kind = "ok" THEN <<VoiceReply(r.vm)>>
    ELSE IF IsInstance(r.exc.type, "ValueError")
    THEN IF Mentions(r.exc.msg, SaysTooLong) THEN <<TextReply(<<MsgReplyTooLong>>)>>
         ELSE IF Mentions(r.exc.msg, SaysEmpty) THEN <<TextReply(<<MsgReplyEmpty>>)>>
         ELSE <<TextReply(<<MsgReplyValidation>> \o r.exc.msg)>>
    ELSE IF IsInstance(r.exc.type, "TtsProviderError")
    THEN IF Mentions(r.exc.msg, SaysUnavailable) THEN <<TextReply(<<MsgUnavailable>>)>>
         ELSE <<TextReply(<<MsgGenerationFailed>> \o r.exc.msg)>>
    ELSE <<>>

\* The end of the try block (reply_voice) and the except clauses of
\* handle_text_message, in the order of the code: the replies sent for the
\* outcome r of the try block.
HandlerReplies(r) ==
    IF r.kind = "ok" THEN <<VoiceReply(r.vm)>>
    ELSE IF IsInstance(r.exc.type, "ValueError")
    THEN IF Mentions(r.exc.msg, SaysTooLong) THEN <<TextReply(<<MsgReplyTooLong>>)>>
         ELSE IF Mentions(r.exc.msg, SaysEmpty) THEN <<TextReply(<<MsgReplyEmpty>>)>>
         ELSE <<TextReply(<<MsgReplyValidation>> \o r.exc.msg)>>
    ELSE IF IsInstance(r.exc.type, "TtsProviderError")
    THEN IF Mentions(r.exc.msg, SaysUnavailable) THEN <<TextReply(<<MsgUnavailable>>)>>
         ELSE <<TextReply(<<MsgGenerationFailed>> \o r.exc.msg)>>
    ELSE IF IsInstance(r.exc.type, "Exception")
    THEN <<TextReply(<<MsgReplyUnexpected>>)>>
    ELSE <<>>

\* if voice_message.format.lower() not in ['ogg', 'opus']
NeedsConversion(r) == r.kind = "ok" /\ Lower(r.vm.format) \notin {"ogg", "opus"}

\* What the provider's synthesize gave the service, once it has.
ProviderDone ==
    CASE provider = "YANDEX" -> yPc = "done"
      [] provider = "SBER" -> sPc[1] = "done"
      [] provider = "OSS" -> ossResult # NoResult
      [] OTHER -> FALSE

ProviderResult ==
    CASE provider = "YANDEX" -> yResult
      [] provider = "SBER" -> sResult[1]
      [] provider = "OSS" -> ossResult
      [] OTHER -> NoResult

\* The texts of the updates: "", a blank, one character, and texts of 2000 and
\* 2001 characters.
HandlerTexts == {Str(0, 0, 0), Str(0, 0, 1), Str(0, 1, 0), Str(0, MAX_LENGTH - 1, 1),
                 Str(0, MAX_LENGTH + 1, 0)}

\* The behaviours of the transcoder and the file system met by the handler's
\* conversions.
HandlerConvEnvs ==
    {e \in ConvEnvs : e.stderr \in {<<>>, <<255>>} /\ e.output \in {<<>>, <<65>>}
                        /\ ~e.unlinkFails}

\* handle_text_message up to use_case.execute: the "if not text" reply, and
\* send_chat_action, which may raise.
HandleStart ==
    /\ hPc = "start"
    /\ provider = "OSS" => ossState = "ready"
    /\ IF StrLen(hText) = 0
       THEN /\ hReplies' = Append(hReplies, TextReply(<<MsgSendText>>))
            /\ hPc' = "done"
       ELSE \E chatActionFails \in BOOLEAN :
               IF chatActionFails
               THEN /\ hReplies' = hReplies \o
                         HandlerReplies(Raise(Exc("TelegramError", <<"<telegram>">>, NoCause)))
                    /\ hPc' = "done"
               ELSE /\ hPc' = "execute"
                    /\ UNCHANGED hReplies
    /\ UNCHANGED <<hText, hGen, hEscaped>>
    /\ UNCHANGED <<provider, yVars, sVars, ossVars, cvVars, ucVars, voVars>>

\* use_case.execute(text=text, user_id=user_id) up to the provider call: an
\* invalid text raises here.
HandleExecute ==
    /\ hPc = "execute"
    /\ IF ExecuteCalls(hText, NoConfig) = <<>>
       THEN /\ hGen' = ExecuteHandlers(ExecuteTry(hText, NoConfig, NoResult))
            /\ hPc' = "generated"
       ELSE /\ hPc' = "synth"
            /\ UNCHANGED hGen
    /\ UNCHANGED <<hText, hReplies, hEscaped>>
    /\ UNCHANGED <<provider, yVars, sVars, ossVars, cvVars, ucVars, voVars>>

\* The provider call made by execute(), for each provider.
HandleYandexBegin == hPc = "synth" /\ yPc = "idle" /\ YandexBegin

HandleSberBegin == hPc = "synth" /\ sPc[1] = "idle" /\ SberBegin(1)

HandleOssSynthesize == hPc = "synth" /\ ossResult = NoResult /\ OssSynthesize

\* The provider call ended: the rest of execute().
HandleExecuteEnd ==
    /\ hPc = "synth"
    /\ ProviderDone
    /\ hGen' = ExecuteHandlers(ExecuteTry(hText, NoConfig, ProviderResult))
    /\ hPc' = "generated"
    /\ UNCHANGED <<hText, hReplies, hEscaped>>
    /\ UNCHANGED <<provider, yVars, sVars, ossVars, cvVars, ucVars, voVars>>

\* audio_converter.convert_to_ogg_opus(voice_message) is called.
HandleConvert ==
    /\ hPc = "generated"
    /\ NeedsConversion(hGen)
    /\ hPc' = "converting"
    /\ cvPc' = "call"
    /\ cvInput' = hGen.vm
    /\ cvEnv' \in HandlerConvEnvs
    /\ UNCHANGED <<cvResult, cvRuns, cvFiles, cvAgain, cvAgainRuns, cvAgainFiles>>
    /\ UNCHANGED <<hText, hGen, hReplies, hEscaped>>
    /\ UNCHANGED <<provider, yVars, sVars, ossVars, ucVars, voVars>>

\* The outcome of the try block before reply_voice.
HandlerOutcome == IF hPc = "converting" THEN cvResult ELSE hGen

\* reply_voice, or the except clause that replies.
HandleReply ==
    /\ \/ hPc = "generated" /\ ~NeedsConversion(hGen)
       \/ hPc = "converting" /\ cvPc = "done"
    /\ hReplies' = hReplies \o HandlerReplies(HandlerOutcome)
    /\ hEscaped' = (HandlerReplies(HandlerOutcome) = <<>>)
    /\ hPc' = "done"
    /\ UNCHANGED <<hText, hGen>>
    /\ UNCHANGED <<provider, yVars, sVars, ossVars, cvVars, ucVars, voVars>>

\* No update is being handled.
HIdle ==
    /\ hPc = "idle"
    /\ hText = Str(0, 0, 0)
    /\ hGen = NoResult
    /\ hReplies = <<>>
    /\ hEscaped = FALSE

\* A text update arrives.
HInit ==
    /\ hPc = "start"
    /\ hText \in HandlerTexts
    /\ hGen = NoResult
    /\ hReplies = <<>>
    /\ hEscaped = FALSE

vars == <<provider, yVars, sVars, ossVars, cvVars, ucVars, voVars, hVars>>

\* The use case with an injected provider of arbitrary behaviour.
Init ==
    /\ provider = "STUB"
    /\ YandexInit
    /\ SberInit
    /\ OssIdle
    /\ ConvIdle
    /\ UcInit
    /\ VoIdle
    /\ HIdle

Next == UseCaseExecute

Spec == Init /\ [][Next]_vars

\* One of the providers create_tts_provider makes, called by one caller at a
\* time.
ProviderInit ==
    /\ provider \in {"YANDEX", "SBER", "OSS"}
    /\ YandexInit
    /\ SberInit
    /\ IF provider = "OSS" THEN OssInit ELSE OssIdle
    /\ ConvIdle
    /\ UcIdle
    /\ VoIdle
    /\ HIdle

ProviderNext ==
    \/ YandexBegin
    \/ YandexPostReturns
    \/ YandexPostFails
    \/ SberBegin(1)
    \/ SberPostReturns(1)
    \/ SberPostFails(1)
    \/ SberExchangeReturns(1)
    \/ SberExchangeFails(1)
    \/ SberStore(1)
    \/ TokensExpire
    \/ OssConstruct
    \/ OssSynthesize

SpecProvider == ProviderInit /\ [][ProviderNext]_vars

\* The cloud providers, with the scheduling the code guarantees: a request sent
\* with timeout=10 ends (requests.post returns or raises), and a caller that
\* holds a new token goes on to store it. Nothing makes get_access_token()
\* end: it is sent without a timeout, and the remote may never answer.
CloudInit ==
    /\ provider \in {"YANDEX", "SBER"}
    /\ YandexInit
    /\ SberInit
    /\ OssIdle
    /\ ConvIdle
    /\ UcIdle
    /\ VoIdle
    /\ HIdle

CloudNext ==
    \/ YandexBegin
    \/ YandexPostReturns
    \/ YandexPostFails
    \/ SberBegin(1)
    \/ SberPostReturns(1)
    \/ SberPostFails(1)
    \/ SberExchangeReturns(1)
    \/ SberExchangeFails(1)
    \/ SberStore(1)
    \/ TokensExpire

FairCloud ==
    /\ CloudInit
    /\ [][CloudNext]_vars
    /\ WF_vars(YandexPostFails)
    /\ WF_vars(SberPostFails(1))
    /\ WF_vars(SberStore(1))

\* The Sber provider called by NumCallers callers concurrently.
SberRaceInit ==
    /\ provider = "SBER"
    /\ YandexInit
    /\ SberInit
    /\ OssIdle
    /\ ConvIdle
    /\ UcIdle
    /\ VoIdle
    /\ HIdle

SberRaceNext ==
    \/ \E c \in AllCallers : SberBegin(c)
    \/ \E c \in AllCallers : SberPostReturns(c)
    \/ \E c \in AllCallers : SberPostFails(c)
    \/ \E c \in AllCallers : SberExchangeReturns(c)
    \/ \E c \in AllCallers : SberExchangeFails(c)
    \/ \E c \in AllCallers : SberStore(c)
    \/ TokensExpire

SpecSberRace == SberRaceInit /\ [][SberRaceNext]_vars

\* The format normalizer on any VoiceMessage.
ConverterInit ==
    /\ provider = "NONE"
    /\ YandexInit
    /\ SberInit
    /\ OssIdle
    /\ ConvInit
    /\ UcIdle
    /\ VoIdle
    /\ HIdle

ConverterNext ==
    \/ ConvertToOggOpus
    \/ ConvertAgain

SpecConverter == ConverterInit /\ [][ConverterNext]_vars

\* The three value-object constructors on any arguments.
ValuesInit ==
    /\ provider = "NONE"
    /\ YandexInit
    /\ SberInit
    /\ OssIdle
    /\ ConvIdle
    /\ UcIdle
    /\ VoInit
    /\ HIdle

ValuesNext ==
    \/ ConstructTextMessage
    \/ ConstructVoiceMessage
    \/ ConstructTtsConfig

SpecValues == ValuesInit /\ [][ValuesNext]_vars

\* One text update handled by the application create_application builds, with
\* any of the three providers.
PipelineInit ==
    /\ provider \in {"YANDEX", "SBER", "OSS"}
    /\ YandexInit
    /\ SberInit
    /\ IF provider = "OSS" THEN OssInit ELSE OssIdle
    /\ ConvIdle
    /\ UcIdle
    /\ VoIdle
    /\ HInit

PipelineNext ==
    \/ OssConstruct
    \/ HandleStart
    \/ HandleExecute
    \/ HandleYandexBegin
    \/ YandexPostReturns
    \/ YandexPostFails
    \/ HandleSberBegin
    \/ SberPostReturns(1)
    \/ SberPostFails(1)
    \/ SberExchangeReturns(1)
    \/ SberExchangeFails(1)
    \/ SberStore(1)
    \/ TokensExpire
    \/ HandleOssSynthesize
    \/ HandleExecuteEnd
    \/ HandleConvert
    \/ ConvertToOggOpus
    \/ HandleReply

SpecPipeline == PipelineInit /\ [][PipelineNext]_vars

\* ------------------------------------------------------------------------
\* Claims about GenerateVoiceMessageUseCase.execute (specification Spec)
\* ------------------------------------------------------------------------
ProviderCalled == Len(ucCalls) > 0

IsValidationError(e) == IsInstance(e.type, "ValueError")

IsProviderError(e) == e.type = "TtsProviderError"

\* C1: execute returns a VoiceMessage or raises ValidationError (ValueError) or
\* TtsProviderError; a TtsProviderError of the provider is re-raised as the
\* same error, and a failure that is neither is raised as a TtsProviderError
\* wrapping it.
C1_ExecuteErrorTaxonomy ==
    ucPc = "done" =>
        /\ \/ ucResult.kind = "ok" /\ ucResult.vm \in VoiceMessages
           \/ ucResult.kind = "raise"
              /\ (IsValidationError(ucResult.exc) \/ IsProviderError(ucResult.exc))
        /\ (ProviderCalled /\ ucStub.kind = "raise" /\ IsProviderError(ucStub.exc))
              => ucResult = ucStub
        /\ (ProviderCalled /\ ucStub.kind = "raise"
              /\ ~IsProviderError(ucStub.exc) /\ ~IsValidationError(ucStub.exc))
              => /\ ucResult.kind = "raise"
                 /\ IsProviderError(ucResult.exc)
                 /\ ucResult.exc.cause = ucStub.exc.type

\* The provider raised an unrelated failure and execute raised TtsProviderError.
C1_Witness ==
    /\ ucPc = "done"
    /\ ProviderCalled
    /\ ucStub.kind = "raise"
    /\ ucStub.exc.type = "RuntimeError"
    /\ IsProviderError(ucResult.exc)

TextIsValid(content) == content.body >= 1 /\ content.lead + content.body + content.trail <= 2000

\* C3: one execute calls the provider's synthesize exactly once when the text
\* is valid (with the text and the given or default TtsConfig) and not at all
\* when TextMessage construction fails, which raises ValidationError; the
\* service forwards the provider's result or failure unchanged.
C3_NoRetries ==
    ucPc = "done" =>
        /\ TextIsValid(ucText) =>
              /\ Len(ucCalls) = 1
              /\ ucCalls[1].text = ucText
              /\ ucCalls[1].config = IF ucConfig = NoConfig THEN DefaultTtsConfig ELSE ucConfig
              /\ ucServiceResult = ucStub
        /\ ~TextIsValid(ucText) =>
              /\ ucCalls = <<>>
              /\ ucResult.kind = "raise"
              /\ ucResult.exc.type = "ValueError"

\* A valid text without a config, and a provider that failed: still one call.
C3_Witness ==
    /\ ucPc = "done"
    /\ TextIsValid(ucText)
    /\ ucConfig = NoConfig
    /\ ucStub.kind = "raise"
    /\ Len(ucCalls) = 1
    /\ ucCalls[1].config = DefaultTtsConfig

\* ------------------------------------------------------------------------
\* Claims about the providers (specifications SpecProvider, FairCloud and
\* SpecSberRace)
\* ------------------------------------------------------------------------
\* The backend call succeeded and yielded no audio bytes.
YandexEmptyAudio == yPc = "done" /\ yResp.status = "200" /\ yResp.content = <<>>

SberEmptyAudio(c) == sPc[c] = "done" /\ sResp[c].status = "200" /\ sResp[c].content = <<>>

OssCalled == provider = "OSS" /\ ossState = "ready" /\ ossResult # NoResult

OssEmptyAudio ==
    /\ OssCalled
    /\ ossEnv.data = <<>>
    /\ \/ ossPreferGtts /\ ~ossEnv.gttsFails
       \/ /\ ~ossPreferGtts /\ PYTTSX3_AVAILABLE
          /\ ~ossEnv.initFails /\ ~ossEnv.tempFails /\ ~ossEnv.runFails /\ ~ossEnv.noFile

RaisesValidationError(r) == r.kind = "raise" /\ IsValidationError(r.exc)

RaisesWrappedValueError(r) ==
    r.kind = "raise" /\ IsProviderError(r.exc) /\ r.exc.cause = "ValueError"

\* C2 as stated: when the backend call succeeds but yields empty audio, the
\* ValidationError of VoiceMessage construction reaches the caller of
\* synthesize unchanged, for each of the three providers.
C2_ValidationNeverWrapped ==
    /\ YandexEmptyAudio => RaisesValidationError(yResult)
    /\ \A c \in AllCallers : SberEmptyAudio(c) => RaisesValidationError(sResult[c])
    /\ OssEmptyAudio => RaisesValidationError(ossResult)

\* C2 as amended: when the backend call succeeds but yields empty audio, each
\* of the three providers raises TtsProviderError whose cause is the
\* ValueError of VoiceMessage construction; no ValueError leaves synthesize.
C2_MalformedAudioWrapped ==
    /\ YandexEmptyAudio => RaisesWrappedValueError(yResult)
    /\ \A c \in AllCallers : SberEmptyAudio(c) => RaisesWrappedValueError(sResult[c])
    /\ OssEmptyAudio => RaisesWrappedValueError(ossResult)
    /\ ~RaisesValidationError(yResult)
    /\ \A c \in AllCallers : ~RaisesValidationError(sResult[c])
    /\ OssCalled => ~RaisesValidationError(ossResult)

\* Yandex answered 200 with an empty body and synthesize raised.
C2_Witness == YandexEmptyAudio /\ yResult.kind = "raise"

HasNote(msg) == \E i \in DOMAIN msg : msg[i] = MsgNewToken

EndedWithoutNewToken == sPc[1] = "done" /\ sNewToken[1] = 0

\* C19: self._access_token changes only when get_access_token() has returned
\* a token, and then to that token. A synthesize call that returns, that fails
\* on the network or on another error status, or whose token exchange fails,
\* ends with the token it started with; after a failed exchange it raises
\* TtsProviderError without the new-token note.
C19_TokenChangesOnlyOnExchange ==
    /\ [](EndedWithoutNewToken => accessToken = sHdrToken[1])
    /\ []((EndedWithoutNewToken /\ SberMustRefresh(sResp[1])) =>
            /\ sResult[1].kind = "raise"
            /\ IsProviderError(sResult[1].exc)
            /\ ~HasNote(sResult[1].exc.msg))
    /\ [][accessToken' # accessToken =>
            /\ sPc[1] = "storing"
            /\ sNewToken[1] = issued
            /\ accessToken' = sNewToken[1]]_vars

\* The call got the expiry error, and its token exchange failed.
C19_Witness ==
    /\ EndedWithoutNewToken
    /\ SberMustRefresh(sResp[1])
    /\ sExchanges[1] = 1
    /\ accessToken = sHdrToken[1]
    /\ sResult[1].kind = "raise"

NoCallInProgress == \A c \in AllCallers : sPc[c] \in {"idle", "done"}

\* C6 as stated: once all racing synthesize calls have finished, the cached
\* access token is a valid token whenever the token endpoint has returned one
\* that is still valid: no refresh leaves an expired or older token cached.
C6_RaceLeavesValidToken ==
    (NoCallInProgress /\ TokenValid(issued)) => TokenValid(accessToken)

\* C7 as stated: every synthesize call on a cloud provider, with any token
\* exchange it makes, eventually returns or raises.
C7_CallsTerminate ==
    /\ (yPc = "posting") ~> (yPc = "done")
    /\ (sPc[1] \in {"posting", "exchanging", "storing"}) ~> (sPc[1] = "done")

\* ------------------------------------------------------------------------
\* Claims about AudioConverter.convert_to_ogg_opus (specification
\* SpecConverter)
\* ------------------------------------------------------------------------
\* C4 as stated: with os.unlink not failing, no transient file of
\* convert_to_ogg_opus or of _synthesize_pyttsx3 is left when the call ends,
\* whatever the exit path.
C4_TransientFilesDeleted ==
    /\ (cvPc = "done" /\ ~cvEnv.unlinkFails) => cvFiles = {}
    /\ (OssCalled /\ ~ossEnv.unlinkFails) => ossFiles = {}

TranscoderRan(outcome) == cvPc = "done" /\ cvRuns = 1 /\ cvEnv.ffmpeg = outcome

\* C8: when the transcoder does not finish within the 30 s wait, the call
\* raises TtsProviderError with the timeout message, which is not the
\* conversion-failure message, and returns no VoiceMessage.
C8_TimeoutRaisesProviderError ==
    TranscoderRan("timeout") =>
        /\ cvResult.kind = "raise"
        /\ IsProviderError(cvResult.exc)
        /\ cvResult.exc.msg = <<MsgConvTimeout>>
        /\ cvResult.exc.msg[1] \notin {MsgConvFailed, MsgConvFailedWith}

\* An mp3 message whose transcoding timed out.
C8_Witness ==
    /\ TranscoderRan("timeout")
    /\ cvInput.format = "mp3"
    /\ cvResult.kind = "raise"

\* bytes.decode() of the stderr values of the model.
StderrText(b) == IF b = <<65>> THEN "A" ELSE IF b = <<>> THEN "" ELSE "<undecodable>"

\* C9 as stated: when the transcoder exits with a non-zero status, the call
\* raises TtsProviderError with the conversion-failure message, and the
\* message includes the captured stderr.
C9_NonZeroExitCarriesStderr ==
    TranscoderRan("nonzero") =>
        /\ cvResult.kind = "raise"
        /\ IsProviderError(cvResult.exc)
        /\ cvResult.exc.msg[1] \in {MsgConvFailed, MsgConvFailedWith}
        /\ cvEnv.stderr # <<>> =>
              \E i \in DOMAIN cvResult.exc.msg : cvResult.exc.msg[i] = StderrText(cvEnv.stderr)

\* C10 as stated: convert_to_ogg_opus returns a VoiceMessage or raises
\* TtsProviderError, whatever the transcoder and the file system do.
C10_OnlyProviderErrorEscapes ==
    cvPc = "done" =>
        \/ cvResult.kind = "ok" /\ cvResult.vm \in VoiceMessages
        \/ cvResult.kind = "raise" /\ IsProviderError(cvResult.exc)


\* The format tags of the target streaming container (Opus audio in Ogg).
TargetTags == {"ogg", "opus"}

IsTargetFormat(vm) ==
    \E f \in Formats : f = vm.format /\ Lower(f) \in TargetTags

\* C11: for a VoiceMessage whose format tag is, in any letter case, that of the
\* target container, convert_to_ogg_opus returns the input itself, creates no
\* transient file and does not run the transcoder; and converting the result
\* of a conversion again returns that result.
C11_NormalizeIdempotent ==
    /\ (cvPc \in {"done", "again"} /\ IsTargetFormat(cvInput)) =>
          /\ cvResult = Ok(cvInput)
          /\ cvFiles = {}
          /\ cvRuns = 0
    /\ cvPc = "again" =>
          /\ cvAgain = cvResult
          /\ cvAgainRuns = 0
          /\ cvAgainFiles = {}

\* An mp3 message was transcoded, and the result was converted a second time.
C11_Witness ==
    /\ cvPc = "again"
    /\ cvInput.format = "MP3"
    /\ cvRuns = 1
    /\ cvAgain.kind = "ok"
    /\ cvAgain.vm.format = "ogg"

\* C12: for a VoiceMessage of another format, when the transcoder exits with
\* status 0 and leaves non-empty output (which the call reads), the call runs
\* the transcoder exactly once and returns a VoiceMessage tagged "ogg" holding
\* exactly the output bytes, with their length as size.
C12_TranscodeResult ==
    (/\ cvPc \in {"done", "again"}
     /\ ~IsTargetFormat(cvInput)
     /\ cvEnv.ioFailAt = "none"
     /\ cvEnv.ffmpeg = "ok"
     /\ cvEnv.output # <<>>) =>
        /\ cvRuns = 1
        /\ cvResult.kind = "ok"
        /\ cvResult.vm.format = "ogg"
        /\ cvResult.vm.audio_data = cvEnv.output
        /\ cvResult.vm.size = Len(cvEnv.output)
        /\ cvResult.vm # cvInput

\* A wav message transcoded into two bytes of output.
C12_Witness ==
    /\ cvPc = "done"
    /\ cvInput.format = "wav"
    /\ cvEnv.ffmpeg = "ok"
    /\ Len(cvEnv.output) = 2
    /\ cvResult.kind = "ok"
    /\ cvRuns = 1


\* ------------------------------------------------------------------------
\* Claims about OssTtsProvider (specification SpecProvider)
\* ------------------------------------------------------------------------
OssConstructed == provider = "OSS" /\ ossState \in {"ready", "failed"}

RaisesNoLibrary(r) == r.kind = "raise" /\ r.exc.msg = <<MsgNoLibrary>>

\* C13: for every outcome of the two imports and every prefer_gtts argument,
\* OssTtsProvider(...) raises when neither gTTS nor pyttsx3 is available, and
\* no synthesize call on a constructed provider fails for want of an engine.
C13_EnginesDetectedAtConstruction ==
    /\ (OssConstructed /\ ~GTTS_AVAILABLE /\ ~PYTTSX3_AVAILABLE) => ossState = "failed"
    /\ OssCalled => ~RaisesNoLibrary(ossResult)


\* ------------------------------------------------------------------------
\* Claims about the value objects (specification SpecValues)
\* ------------------------------------------------------------------------
Constructed(class) == voPc = "done" /\ voClass = class

RaisedValueError(r) == r.kind = "raise" /\ r.exc.type = "ValueError"

ContentIsValid(arg) ==
    arg.isStr /\ StrLen(Strip(arg.s)) >= 1 /\ StrLen(arg.s) <= 2000

\* C15: TextMessage(content) succeeds exactly when the stripped content has at
\* least 1 character and the content at most 2000; otherwise it raises
\* ValueError; an accepted content of 2000 characters has length 2000.
C15_TextMessageAccepts ==
    Constructed("TextMessage") =>
        /\ voResult.kind = "ok" <=> ContentIsValid(voContent)
        /\ ~ContentIsValid(voContent) => RaisedValueError(voResult)
        /\ voResult.kind = "ok" => voLength = StrLen(voContent.s)

\* A content of exactly 2000 characters, one of them a trailing blank, was
\* accepted.
C15_Witness ==
    /\ Constructed("TextMessage")
    /\ StrLen(voContent.s) = 2000
    /\ voContent.s.trail = 1
    /\ voResult.kind = "ok"
    /\ voLength = 2000

AudioIsValid(arg, fmt) ==
    /\ arg.isBytes
    /\ Len(arg.data) > 0
    /\ \E f \in {"ogg", "opus", "mp3", "wav"} : Lower(fmt) = f

\* C16: VoiceMessage(audio_data, format, size) succeeds exactly when audio_data
\* is a non-empty bytes object and format.lower() is ogg, opus, mp3 or wav;
\* otherwise it raises ValueError; without a size argument the size of the
\* object is len(audio_data).
C16_VoiceMessageAccepts ==
    Constructed("VoiceMessage") =>
        /\ voResult.kind = "ok" <=> AudioIsValid(voAudio, voFormat)
        /\ ~AudioIsValid(voAudio, voFormat) => RaisedValueError(voResult)
        /\ (voResult.kind = "ok" /\ voSize = NoSize) =>
              voResult.vm.size = Len(voAudio.data)
        /\ voResult.kind = "ok" =>
              voResult.vm.audio_data = voAudio.data /\ voResult.vm.format = voFormat

\* Two bytes tagged "MP3" were accepted without a size argument.
C16_Witness ==
    /\ Constructed("VoiceMessage")
    /\ voFormat = "MP3"
    /\ voSize = NoSize
    /\ voResult.kind = "ok"
    /\ voResult.vm.size = 2

\* 0.1 <= speed <= 3.0 for a number; False for NaN.
SpeedInRange(x) == IsNumber(x) /\ ~x.nan /\ 10 <= x.val /\ x.val <= 300

\* C17: TtsConfig(speed=...) succeeds exactly when speed is a number with
\* 0.1 <= speed <= 3.0, and raises ValueError otherwise.
C17_TtsConfigAccepts ==
    Constructed("TtsConfig") =>
        /\ voResult.kind = "ok" <=> SpeedInRange(voSpeed)
        /\ ~SpeedInRange(voSpeed) => RaisedValueError(voResult)


\* ------------------------------------------------------------------------
\* Claims about the whole pipeline (specification SpecPipeline)
\* ------------------------------------------------------------------------
CloudProvider == provider \in {"YANDEX", "SBER"}

\* The response to the synthesis request of the cloud provider's call.
CloudResponse == IF provider = "YANDEX" THEN yResp ELSE sResp[1]

\* requests.post raised: the call ended without a response.
CloudCallFailedOnNetwork == CloudProvider /\ ProviderDone /\ CloudResponse = NoResponse

\* requests.post returned a status other than 200.
CloudCallGotErrorStatus ==
    CloudProvider /\ ProviderDone /\ CloudResponse.status \notin {"None", "200"}

\* The message text the vendor put in its error JSON.
VendorDetail ==
    IF ~CloudResponse.jsonOk THEN ""
    ELSE IF provider = "YANDEX" THEN CloudResponse.message
    ELSE SberErrorDetail(CloudResponse)

RepliedUnavailable == hReplies = <<TextReply(<<MsgUnavailable>>)>>

\* C14 as stated: a network failure of a cloud provider raises
\* TtsProviderError with the generic "temporarily unavailable" message; an
\* error status raises TtsProviderError carrying the status and the vendor's
\* message; and handle_text_message answers a provider failure with the
\* generic retry-later text exactly when the failure was a network failure,
\* whatever text the vendor supplied.
C14_GenericReplyIffNetworkFailure ==
    /\ CloudCallFailedOnNetwork =>
          /\ ProviderResult.kind = "raise"
          /\ IsProviderError(ProviderResult.exc)
          /\ ProviderResult.exc.msg = <<MsgUnavailable>>
    /\ CloudCallGotErrorStatus =>
          /\ ProviderResult.kind = "raise"
          /\ IsProviderError(ProviderResult.exc)
          /\ Mentions(ProviderResult.exc.msg, {CloudResponse.status})
          /\ VendorDetail # "" => Mentions(ProviderResult.exc.msg, {VendorDetail})
    /\ (CloudProvider /\ hPc = "done" /\ hGen.kind = "raise" /\ IsProviderError(hGen.exc)) =>
          (RepliedUnavailable <=> CloudCallFailedOnNetwork)

ExecuteEnded == hGen # NoResult

\* C18: with the Yandex, Sber or OSS provider behind the service, execute
\* raises ValueError exactly when the text is blank or longer than 2000
\* characters; a failure of the provider's synthesize reaches the caller as the
\* TtsProviderError the provider raised, and empty audio from the backend as a
\* TtsProviderError whose cause is the ValueError of VoiceMessage.
C18_ValueErrorOnlyForText ==
    ExecuteEnded =>
        /\ (hGen.kind = "raise" /\ IsValidationError(hGen.exc)) <=> ~TextIsValid(hText)
        /\ (ProviderDone /\ ProviderResult.kind = "raise") =>
              hGen = ProviderResult /\ IsProviderError(hGen.exc)
        /\ (provider = "YANDEX" /\ YandexEmptyAudio) => RaisesWrappedValueError(hGen)
        /\ (provider = "SBER" /\ SberEmptyAudio(1)) => RaisesWrappedValueError(hGen)
        /\ OssEmptyAudio => RaisesWrappedValueError(hGen)

\* Sber answered 200 with an empty body to a valid text, and execute raised.
C18_Witness ==
    /\ ExecuteEnded
    /\ provider = "SBER"
    /\ SberEmptyAudio(1)
    /\ TextIsValid(hText)
    /\ RaisesWrappedValueError(hGen)

\* Generation and the conversion it needed, if any, succeeded.
GenerationSucceeded ==
    /\ hGen.kind = "ok"
    /\ NeedsConversion(hGen) => (cvPc = "done" /\ cvResult.kind = "ok")

\* C20: for a non-empty text, handle_text_message never sends a second reply,
\* and when it ends it has sent exactly one: a voice reply, with audio tagged
\* ogg or opus in any letter case, exactly when generation and any needed
\* conversion succeeded, and a text reply otherwise.
C20_ExactlyOneReply ==
    /\ Len(hReplies) <= 1
    /\ (hPc = "done" /\ StrLen(hText) > 0) =>
          /\ Len(hReplies) = 1
          /\ ~hEscaped
          /\ hReplies[1].kind \in {"voice", "text"}
          /\ hReplies[1].kind = "voice" <=> GenerationSucceeded
          /\ hReplies[1].kind = "voice" =>
                /\ Lower(hReplies[1].vm.format) \in {"ogg", "opus"}
                /\ hReplies[1].vm = IF NeedsConversion(hGen) THEN cvResult.vm ELSE hGen.vm

\* The OSS provider returned mp3 audio, the converter ran the transcoder, and
\* the converted audio was sent as the one voice reply.
C20_Witness ==
    /\ hPc = "done"
    /\ provider = "OSS"
    /\ hGen.kind = "ok"
    /\ hGen.vm.format = "mp3"
    /\ cvRuns = 1
    /\ Len(hReplies) = 1
    /\ hReplies[1].kind = "voice"
    /\ hReplies[1].vm.format = "ogg"

====
